---- MODULE Spec2Model ----
(***************************************************************************)
(* A model of src/src/analysis/predict_rul.py: the attention blocks, the   *)
(* encoder/decoder stacks, the regression head, the inverse transform and  *)
(* the inference loop infer_rul_without_gt.                                *)
(*                                                                         *)
(* Numbers.  Tensors hold integers: every float32 value of the program is  *)
(* kept on the integer grid, and the three transcendental functions the    *)
(* forward pass uses (exp in softmax, erf in GELU, sin/cos in the          *)
(* positional encoding) are rounded to that grid where they are defined    *)
(* below.  A tensor of shape (B, L, D) is a sequence of B sequences of L   *)
(* rows, each row a sequence of D integers.                                *)
(*                                                                         *)
(* The result of math.pow(100, s) - 1 is a binary64 value; it is kept as   *)
(* its decimal expansion (sign, integer digits, fraction digits) and the   *)
(* binary64 rounding and overflow are computed on digit sequences.         *)
(***************************************************************************)
EXTENDS Integers, Sequences, FiniteSets, TLC

\* ------------------------------------------------------------------ sizes

\* feature_dim and window_size are parameters of infer_rul_without_gt
\* (defaults 36 and 21); the model calls it with the smallest feature_dim
\* that heads = 4 divides and that the positional encoding accepts (even).
feature_dim == 4
heads == 4
hidden == 1
layers == 2
hidden_dims == <<2, 1>>
window_size == 2

\* Longest feature table (rows) and longest sequence given to a block.
MaxLen == 3
\* Sessions of best_matches that a run of the model processes.
NumSessions == 2
\* Softmax weights below 2^-ExpClip of the row's largest weight round to 0,
\* as exp underflows to 0 in float32.
ExpClip == 6

d_k == feature_dim \div heads

\* math.sqrt(self.dk), exact for the square d_k the model uses.
SqrtDk == CHOOSE r \in 1..d_k : r * r = d_k

\* ---------------------------------------------------------------- vectors

\* F(x), F(x, y), F(x, y, z): the arguments are evaluated once, before F
\* uses them.
Eval(F(_), x) == CHOOSE r \in {F(v) : v \in {x}} : TRUE
Eval2(F(_, _), x, y) == CHOOSE r \in {F(v, w) : v \in {x}, w \in {y}} : TRUE
Eval3(F(_, _, _), x, y, z) == CHOOSE r \in {F(u, v, w) : u \in {x}, v \in {y}, w \in {z}} : TRUE

RECURSIVE SumTo(_, _)
SumTo(f, n) == IF n = 0 THEN 0 ELSE f[n] + SumTo(f, n - 1)

RECURSIVE DotTo(_, _, _)
DotTo(a, b, n) == IF n = 0 THEN 0 ELSE a[n] * b[n] + DotTo(a, b, n - 1)

Dot(a, b) == DotTo(a, b, Len(a))

VecAdd(a, b) == [i \in 1..Len(a) |-> a[i] + b[i]]

\* v[from .. from+n-1] with a 0-based offset, as a view of a flat vector.
Slice(v, from, n) == [j \in 1..n |-> v[from + j]]

MaxOf(s) == CHOOSE m \in {s[j] : j \in 1..Len(s)} : \A j \in 1..Len(s) : s[j] <= m

\* nn.Linear.forward on one row: W v + b, W of shape (out, in).
Linear(p, v) == [o \in 1..Len(p.bias) |-> Dot(p.weight[o], v) + p.bias[o]]

\* nn.GELU rounded to the integer grid: x * Phi(x) is within 0.17 of
\* max(x, 0) everywhere.
GELU(n) == IF n > 0 THEN n ELSE 0

GELUVec(v) == [i \in 1..Len(v) |-> GELU(v[i])]

\* torch.softmax(scores, dim=-1) over one row of scores, as unnormalised
\* weights: 2^(score - max), scaled by 2^ExpClip, 0 below the clip.
SoftmaxRow(scores, m) ==
    [j \in 1..Len(scores) |->
        IF m - scores[j] > ExpClip THEN 0 ELSE 2 ^ (ExpClip - (m - scores[j]))]

SoftmaxWeights(scores) == Eval2(SoftmaxRow, scores, MaxOf(scores))

\* One row of A @ V: the weighted mean of V's rows, rounded to the grid.
Attend(e, V) ==
    [c \in 1..d_k |->
        SumTo([j \in 1..Len(V) |-> e[j] * V[j][c]], Len(V)) \div SumTo(e, Len(V))]

\* One row of (Q @ K^T) / sqrt(dk).
Scores(q, K) == [j \in 1..Len(K) |-> Dot(q, K[j]) \div SqrtDk]

\* softmax((Q @ K^T) / sqrt(dk)) @ V for one head: Q is (T, dk), K and V are (S, dk).
AttentionRows(Q, K, V) ==
    [i \in 1..Len(Q) |-> Eval(LAMBDA e : Attend(e, V), SoftmaxWeights(Scores(Q[i], K)))]

Attention(Q, K, V) == Eval3(AttentionRows, Q, K, V)

\* ------------------------------------------------------ positional encoding

\* round(sin(p)) and round(cos(p)) for p = 0..6 (div = 1, feature pair 0).
SinTable == <<0, 1, 1, 0, -1, -1, 0>>
CosTable == <<1, 1, 0, -1, -1, 0, 1>>

\* pe[p][c] for 0-based position p and 1-based feature c.  Feature pair i
\* (columns 2i+1, 2i+2) has div = 10000^(-2i/D); for i >= 1 and D = 4 that
\* is 0.01, so sin(p * div) rounds to 0 and cos(p * div) to 1 for p < 50.
PE(p, c) ==
    LET i == (c - 1) \div 2
        even == (c - 1) % 2 = 0
    IN  IF i = 0 THEN (IF even THEN SinTable[p + 1] ELSE CosTable[p + 1])
        ELSE (IF even THEN 0 ELSE 1)

add_positional_encoding(x) ==
    [b \in 1..Len(x) |->
        [t \in 1..Len(x[b]) |->
            [c \in 1..feature_dim |-> x[b][t][c] + PE(t - 1, c)]]]

\* ------------------------------------------------------------------ blocks

\* .view(B, L, n, h, dk).permute(2, 0, 3, 1, 4)[c][b][hd]: rows t of part c
\* (0: Q or K, 1: K or V, 2: V) of head hd.
HeadPart(proj, c, hd) ==
    [t \in 1..Len(proj) |-> Slice(proj[t], c * feature_dim + hd * d_k, d_k)]

\* (A @ V).transpose(1, 2).reshape(B, L, D): row t is the heads' rows side by side.
ConcatHeads(AV, L) ==
    [t \in 1..L |->
        [i \in 1..feature_dim |-> AV[(i - 1) \div d_k][t][((i - 1) % d_k) + 1]]]

\* A variant without the residual connection.
OutOnly(out, cat, X) == [t \in 1..Len(X) |-> Linear(out, cat[t])]

\* self.out(...) + x
OutPlusResidual(out, cat, X) == [t \in 1..Len(X) |-> VecAdd(Linear(out, cat[t]), X[t])]

SelfAttentionHeads(qkv) ==
    [hd \in 0..(heads - 1) |->
        Attention(HeadPart(qkv, 0, hd), HeadPart(qkv, 1, hd), HeadPart(qkv, 2, hd))]

\* SelfAttention.forward on one batch element X of shape (L, D).
SelfAttention1(p, X) ==
    Eval(LAMBDA AV : OutPlusResidual(p.out, ConcatHeads(AV, Len(X)), X),
         Eval(SelfAttentionHeads, [t \in 1..Len(X) |-> Linear(p.qkv, X[t])]))

SelfAttentionBatch(p, x) == [b \in 1..Len(x) |-> SelfAttention1(p, x[b])]

SelfAttention_forward(p, x) == Eval2(SelfAttentionBatch, p, x)

CrossAttentionHeads(q, kv) ==
    [hd \in 0..(heads - 1) |->
        Attention(HeadPart(q, 0, hd), HeadPart(kv, 0, hd), HeadPart(kv, 1, hd))]

\* MultiHeadCrossAttention.forward on one batch element: X is (T, D), M is (S, D).
CrossAttention1(p, X, M) ==
    Eval(LAMBDA AV : OutPlusResidual(p.out, ConcatHeads(AV, Len(X)), X),
         Eval2(CrossAttentionHeads,
               [t \in 1..Len(X) |-> Linear(p.q, X[t])],
               [s \in 1..Len(M) |-> Linear(p.kv, M[s])]))

CrossAttentionBatch(p, x, memory) == [b \in 1..Len(x) |-> CrossAttention1(p, x[b], memory[b])]

MultiHeadCrossAttention_forward(p, x, memory) == Eval3(CrossAttentionBatch, p, x, memory)

FeedForwardBatch(p, x) ==
    [b \in 1..Len(x) |->
        [t \in 1..Len(x[b]) |->
            VecAdd(Linear(p.l2, GELUVec(Linear(p.l1, x[b][t]))), x[b][t])]]

FeedForward_forward(p, x) == Eval2(FeedForwardBatch, p, x)

\* Encoder.forward: for layer in self.layers: x = layer(x), each layer the
\* nn.Sequential(SelfAttention, FeedForward).
RECURSIVE EncoderFrom(_, _, _)
EncoderFrom(ps, x, i) ==
    IF i > Len(ps) THEN x
    ELSE EncoderFrom(ps, FeedForward_forward(ps[i].ff, SelfAttention_forward(ps[i].sa, x)), i + 1)

Encoder_forward(ps, x) == Eval2(LAMBDA p, v : EncoderFrom(p, v, 1), ps, x)

\* One iteration of Decoder.forward's loop: x = sa(x); x = ca(x, enc_out); x = ff(x).
DecoderLayer(sa, ca, ff, x, enc_out) ==
    FeedForward_forward(ff,
        MultiHeadCrossAttention_forward(ca, SelfAttention_forward(sa, x), enc_out))

RECURSIVE DecoderFrom(_, _, _, _)
DecoderFrom(ps, x, enc_out, i) ==
    IF i > Len(ps.self_layers) THEN x
    ELSE DecoderFrom(ps,
             DecoderLayer(ps.self_layers[i], ps.cross_layers[i], ps.ffns[i], x, enc_out),
             enc_out, i + 1)

Decoder_forward(ps, tgt, enc_out) == Eval3(LAMBDA p, x, m : DecoderFrom(p, x, m, 1), ps, tgt, enc_out)

\* RULHead.net: Linear, GELU, Linear, GELU, Linear (no GELU after the last).
RECURSIVE HeadNet(_, _, _)
HeadNet(net, v, i) ==
    IF i = Len(net) THEN Linear(net[i], v)
    ELSE HeadNet(net, GELUVec(Linear(net[i], v)), i + 1)

\* A variant reading the first time step.
FirstStep(x) == [b \in 1..Len(x) |-> x[b][1]]

\* x[:, -1, :]: the row at the last time step of each batch element.
LastStep(x) == [b \in 1..Len(x) |-> x[b][Len(x[b])]]

\* x[:, -1, :] raises IndexError when the time axis is empty.
RULHead_raises(x) == \E b \in 1..Len(x) : Len(x[b]) = 0

\* self.net(x[:, -1, :]).squeeze(-1): one scalar per batch element.
RULHead_forward(p, x) ==
    Eval(LAMBDA last : [b \in 1..Len(last) |-> HeadNet(p.net, last[b], 1)[1]], LastStep(x))

\* ------------------------------------------------- math.pow(100, s) - 1

\* Python floats are IEEE-754 binary64: 10^308 is the largest finite power
\* of ten (sys.float_info.max_10_exp) and the significand has 53 bits.
DBL_MAX_10_EXP == 308

\* Natural numbers as sequences of decimal digits, most significant first.
Nines(n) == [i \in 1..n |-> 9]

Pow10Digits(k) == <<1>> \o [i \in 1..k |-> 0]

BigLess(a, b) ==
    \/ Len(a) < Len(b)
    \/ /\ Len(a) = Len(b)
       /\ \E i \in 1..Len(a) : a[i] < b[i] /\ \A j \in 1..(i - 1) : a[j] = b[j]

BigDouble(a) ==
    (IF a[1] >= 5 THEN <<1>> ELSE <<>>) \o
    [i \in 1..Len(a) |->
        (2 * a[i] + (IF i < Len(a) /\ a[i + 1] >= 5 THEN 1 ELSE 0)) % 10]

\* 2^53 = 9007199254740992: every integer up to it is a binary64 value.
TwoToMant == <<9, 0, 0, 7, 1, 9, 9, 2, 5, 4, 7, 4, 0, 9, 9, 2>>
TwoToMantPlus1 == BigDouble(TwoToMant)

\* A binary64 value by its decimal expansion: -d.f or d.f, d without leading
\* zeros, f without trailing zeros.
Dec(neg, int, frac) == [neg |-> neg, int |-> int, frac |-> frac]

DecZero == Dec(FALSE, <<0>>, <<>>)

FracDigit(f, i) == IF i <= Len(f) THEN f[i] ELSE 0

FracLess(f, g) ==
    \E i \in 1..(Len(f) + Len(g)) :
        /\ FracDigit(f, i) < FracDigit(g, i)
        /\ \A j \in 1..(i - 1) : FracDigit(f, j) = FracDigit(g, j)

MagLess(a, b) == BigLess(a.int, b.int) \/ (a.int = b.int /\ FracLess(a.frac, b.frac))

\* a < b on binary64 values (no value of the model is -0 or NaN).
DecLess(a, b) ==
    IF a.neg /\ ~b.neg THEN TRUE
    ELSE IF ~a.neg /\ b.neg THEN FALSE
    ELSE IF ~a.neg THEN MagLess(a, b)
    ELSE MagLess(b, a)

\* A variant with base 10.
math_pow_10(s) == s

\* math.pow(100, s) for an integer-valued s is 10^(2s): the result is kept
\* as its decimal exponent.  math.pow raises OverflowError when the result
\* is not finite (it returns 0.0 on underflow).
math_pow_100(s) == 2 * s

math_pow_overflows(s) == math_pow_100(s) > DBL_MAX_10_EXP

\* 10^k - 1 rounded to binary64.  For k > 0 the exact result is k nines: it
\* is a binary64 value while it is below 2^53, and above that the nearest
\* binary64 value is 10^k as math.pow returned it.  For k < 0 the exact
\* result is -(1 - 10^k), in (-1, -0.9], where binary64 values are 2^-53
\* apart: it rounds to -1 once 10^k <= 2^-54.
MinusOne(k) ==
    IF k = 0 THEN DecZero
    ELSE IF k > 0 THEN
        (IF BigLess(Nines(k), TwoToMant) THEN Dec(FALSE, Nines(k), <<>>)
         ELSE Dec(FALSE, Pow10Digits(k), <<>>))
    ELSE
        (IF BigLess(Pow10Digits(-k), TwoToMantPlus1) THEN Dec(TRUE, <<0>>, Nines(-k))
         ELSE Dec(TRUE, <<1>>, <<>>))

\* pred_rul = math.pow(100, pred_log_rul.item()) - 1
InverseTransform(s) == MinusOne(math_pow_100(s))

\* ------------------------------------------------------------- parameters

ConstVec(n, c) == [i \in 1..n |-> c]

ConstMat(out, in, c) == [o \in 1..out |-> [i \in 1..in |-> c]]

\* Output o reads input ((o - 1) mod in) + 1 (and, when out < in, every input
\* congruent to it mod out).
EyeMat(out, in) ==
    [o \in 1..out |-> [i \in 1..in |-> IF (o - 1) % in = (i - 1) % out THEN 1 ELSE 0]]

LinearParams(W, b) == [weight |-> W, bias |-> b]

ZeroLinear(out, in) == LinearParams(ConstMat(out, in, 0), ConstVec(out, 0))

\* The parameter values a nn.Linear(in, out) is given in the model.
LinearSet(out, in) ==
    {LinearParams(W, ConstVec(out, b)) :
        W \in {ConstMat(out, in, 0), EyeMat(out, in)}, b \in {0, 1}}

\* SelfAttention.__init__: qkv = Linear(d_model, 3 d_model), out = Linear(d_model, d_model).
SelfAttentionSet ==
    {[qkv |-> a, out |-> o] :
        a \in LinearSet(3 * feature_dim, feature_dim), o \in LinearSet(feature_dim, feature_dim)}

\* MultiHeadCrossAttention.__init__: q, kv = Linear(d_model, 2 d_model), out.
CrossAttentionSet ==
    {[q |-> a, kv |-> k, out |-> o] :
        a \in LinearSet(feature_dim, feature_dim),
        k \in LinearSet(2 * feature_dim, feature_dim),
        o \in LinearSet(feature_dim, feature_dim)}

\* FeedForward.__init__: Linear(d_model, hidden), GELU, Linear(hidden, d_model).
FeedForwardSet ==
    {[l1 |-> a, l2 |-> b] :
        a \in LinearSet(hidden, feature_dim), b \in LinearSet(feature_dim, hidden)}

\* EncoderFor(a, f): an Encoder(layers, ...) state dict whose every layer
\* holds the same SelfAttention and FeedForward parameters.
EncoderParams(a, f) == [i \in 1..layers |-> [sa |-> a, ff |-> f]]

DecoderParams(a, c, f) ==
    [self_layers |-> [i \in 1..layers |-> a],
     cross_layers |-> [i \in 1..layers |-> c],
     ffns |-> [i \in 1..layers |-> f]]

\* RULHead.__init__: Linear(d_model, h1), GELU, Linear(h1, h2), GELU, Linear(h2, 1).
HeadParams(l1, l2, l3) == [net |-> <<l1, l2, l3>>]

ZeroSelfAttention ==
    [qkv |-> ZeroLinear(3 * feature_dim, feature_dim), out |-> ZeroLinear(feature_dim, feature_dim)]

EyeSelfAttention ==
    [qkv |-> LinearParams(EyeMat(3 * feature_dim, feature_dim), ConstVec(3 * feature_dim, 0)),
     out |-> LinearParams(EyeMat(feature_dim, feature_dim), ConstVec(feature_dim, 0))]

ZeroCrossAttention ==
    [q |-> ZeroLinear(feature_dim, feature_dim),
     kv |-> ZeroLinear(2 * feature_dim, feature_dim),
     out |-> ZeroLinear(feature_dim, feature_dim)]

EyeCrossAttention ==
    [q |-> LinearParams(EyeMat(feature_dim, feature_dim), ConstVec(feature_dim, 0)),
     kv |-> LinearParams(EyeMat(2 * feature_dim, feature_dim), ConstVec(2 * feature_dim, 0)),
     out |-> LinearParams(EyeMat(feature_dim, feature_dim), ConstVec(feature_dim, 0))]

ZeroFeedForward == [l1 |-> ZeroLinear(hidden, feature_dim), l2 |-> ZeroLinear(feature_dim, hidden)]

EyeFeedForward ==
    [l1 |-> LinearParams(EyeMat(hidden, feature_dim), ConstVec(hidden, 0)),
     l2 |-> LinearParams(EyeMat(feature_dim, hidden), ConstVec(feature_dim, 0))]

\* The contents the three weight files are given: encoder.pth, decoder.pth
\* and head.pth.  The head's last bias moves the log-RUL scalar into the
\* ranges where math.pow(100, s) - 1 is exact, saturates at -1, or overflows.
EncoderFiles ==
    {EncoderParams(ZeroSelfAttention, ZeroFeedForward), EncoderParams(EyeSelfAttention, EyeFeedForward)}

DecoderFiles ==
    {DecoderParams(ZeroSelfAttention, ZeroCrossAttention, ZeroFeedForward),
     DecoderParams(EyeSelfAttention, EyeCrossAttention, EyeFeedForward)}

HeadBiases == {-14, -3, 150}

HeadFiles ==
    {HeadParams(LinearParams(EyeMat(hidden_dims[1], feature_dim), ConstVec(hidden_dims[1], 0)),
                LinearParams(EyeMat(hidden_dims[2], hidden_dims[1]), ConstVec(hidden_dims[2], 0)),
                LinearParams(EyeMat(1, hidden_dims[2]), ConstVec(1, b))) : b \in HeadBiases}

\* ------------------------------------------------------------ the pipeline

\* best_matches, in the dict's insertion order.
best_matches ==
    << [val_name |-> "validation1", train_file |-> "train3.csv"],
       [val_name |-> "validation2", train_file |-> "train5.csv"],
       [val_name |-> "validation3", train_file |-> "train5.csv"],
       [val_name |-> "validation4", train_file |-> "train5.csv"],
       [val_name |-> "validation5", train_file |-> "train7.csv"],
       [val_name |-> "validation6", train_file |-> "train5.csv"] >>

\* The sessions a run of the model iterates over: the table's first NumSessions.
Sessions == SubSeq(best_matches, 1, NumSessions)

TrainFileNames == {best_matches[i].train_file : i \in 1..Len(best_matches)}

ModelKeys == {"encoder", "decoder", "regressor"}

\* A file as pd.read_csv finds it: absent, holding a non-numeric cell, or a
\* table of numeric rows.  A row has feature_dim feature columns and one
\* more column the pipeline never reads.
File(kind, rows) == [kind |-> kind, rows |-> rows]

Unread == File("unread", <<>>)

FileRow(c) == [i \in 1..(feature_dim + 1) |-> IF i = 1 THEN c ELSE IF i > feature_dim THEN 7 ELSE 0]

\* The table of n rows whose first feature counts up from c + 1: its rows
\* are pairwise different, so a window shows which rows it holds.
Table(n, c) == File("table", [t \in 1..n |-> FileRow(c + t)])

ValFiles ==
    {File("missing", <<>>), File("nonnumeric", <<>>)} \cup {Table(n, 0) : n \in 0..MaxLen}

TrainFiles == {File("missing", <<>>), File("nonnumeric", <<>>), Table(1, 0)}

\* df.values[:, :feature_dim]
FirstColumns(rows) == [t \in 1..Len(rows) |-> SubSeq(rows[t], 1, feature_dim)]

\* val_tensor[-window_size:]: the last window_size rows, or every row when
\* there are fewer.
LastRows(x, w) == IF Len(x) <= w THEN x ELSE SubSeq(x, Len(x) - w + 1, Len(x))

\* results.append(...)
\* A variant that puts the new row first.
results_prepend(rs, r) == <<r>> \o rs

results_append(rs, r) == Append(rs, r)

NoError == [type |-> "none", session |-> 0, stage |-> "none"]

Exception(type, session, stage) == [type |-> type, session |-> session, stage |-> stage]

NoneDec == Dec(FALSE, <<>>, <<>>)

\* A module as its constructor leaves it (randomly initialised), and after
\* load_state_dict.
NotLoaded == [loaded |-> FALSE, params |-> <<>>]

Loaded(params) == [loaded |-> TRUE, params |-> params]

VARIABLES
    pc,            \* the statement infer_rul_without_gt is at
    files,         \* model_paths' files as torch.load finds them
    state_dicts,   \* the parameters the three files hold
    model,         \* encoder, decoder, rul_head: the parameters loaded so far
    fs,            \* the train tables read so far (a file reads the same each time)
    idx,           \* the position in best_matches of the session being processed
    val_df, train_df, train_tensor, dec_input, enc_out, dec_out,
    pred_log_rul, pred_rul,
    results,       \* the list results
    csv,           \* the rows of output_csv_path
    n_writes,      \* how many times to_csv has run
    error,         \* the exception that left the function
    trace,         \* history: the stages entered, as <<session, stage>>
    logs,          \* history: the log-RUL scalar behind each entry of results
    unit           \* the state of a block run on its own

pipeline_vars ==
    <<pc, files, state_dicts, model, fs, idx, val_df, train_df, train_tensor, dec_input,
      enc_out, dec_out, pred_log_rul, pred_rul, results, csv, n_writes, error, trace, logs>>

vars == <<pipeline_vars, unit>>

locals == <<val_df, train_df, train_tensor, dec_input, enc_out, dec_out, pred_log_rul, pred_rul>>

Idle == [block |-> "none"]

FileStates == {"ok", "missing", "mismatch"}

Init ==
    /\ pc = "load_encoder"
    /\ files \in [ModelKeys -> FileStates]
    /\ state_dicts \in
           {[encoder |-> e, decoder |-> d, regressor |-> h] :
               e \in EncoderFiles, d \in DecoderFiles, h \in HeadFiles}
    /\ model = [k \in ModelKeys |-> NotLoaded]
    /\ fs = [f \in TrainFileNames |-> Unread]
    /\ idx = 0
    /\ val_df = Unread /\ train_df = Unread
    /\ train_tensor = <<>> /\ dec_input = <<>> /\ enc_out = <<>> /\ dec_out = <<>>
    /\ pred_log_rul = <<>> /\ pred_rul = NoneDec
    /\ results = <<>> /\ csv = <<>> /\ n_writes = 0
    /\ error = NoError
    /\ trace = <<>> /\ logs = <<>>
    /\ unit = Idle

\* A variant that writes what was collected so far on the way out.
Raise_flush(e) ==
    /\ pc' = "raised"
    /\ error' = e
    /\ csv' = results
    /\ n_writes' = n_writes + 1

\* An exception leaves infer_rul_without_gt: nothing in it catches one.
Raise(e) ==
    /\ pc' = "raised"
    /\ error' = e
    /\ UNCHANGED <<csv, n_writes>>

Goto(next) ==
    /\ pc' = next
    /\ UNCHANGED <<error, csv, n_writes>>

\* A variant that keeps the constructor's weights when the file cannot be
\* loaded, and goes on.
load_state_dict_lenient(key, next) ==
    /\ model' = [model EXCEPT ![key] = IF files[key] = "ok" THEN Loaded(state_dicts[key]) ELSE @]
    /\ Goto(next)

\* <module>.load_state_dict(torch.load(model_paths[key])): torch.load raises
\* on a missing file, load_state_dict (strict) on a shape or key mismatch.
load_state_dict(key, next) ==
    IF files[key] = "ok"
    THEN /\ model' = [model EXCEPT ![key] = Loaded(state_dicts[key])]
         /\ Goto(next)
    ELSE /\ Raise(Exception(IF files[key] = "missing" THEN "FileNotFoundError" ELSE "RuntimeError",
                            0, key))
         /\ UNCHANGED model

LoadEncoder ==
    /\ pc = "load_encoder"
    /\ load_state_dict("encoder", "load_decoder")
    /\ UNCHANGED <<files, state_dicts, fs, idx, locals, results, trace, logs, unit>>

LoadDecoder ==
    /\ pc = "load_decoder"
    /\ load_state_dict("decoder", "load_regressor")
    /\ UNCHANGED <<files, state_dicts, fs, idx, locals, results, trace, logs, unit>>

LoadRegressor ==
    /\ pc = "load_regressor"
    /\ load_state_dict("regressor", "for")
    /\ UNCHANGED <<files, state_dicts, fs, idx, locals, results, trace, logs, unit>>

\* for val_name, train_file in best_matches.items():
ForNext ==
    /\ pc = "for"
    /\ IF idx < Len(Sessions)
       THEN idx' = idx + 1 /\ Goto("read_csv")
       ELSE idx' = idx /\ Goto("to_csv")
    /\ UNCHANGED <<files, state_dicts, model, fs, locals, results, trace, logs, unit>>

\* val_df = pd.read_csv(val_csv); train_df = pd.read_csv(train_csv)
ReadCsv ==
    /\ pc = "read_csv"
    /\ trace' = Append(trace, <<idx, "Load">>)
    /\ LET train_file == Sessions[idx].train_file
       IN  \E v \in ValFiles :
           \E t \in (IF fs[train_file] = Unread THEN TrainFiles ELSE {fs[train_file]}) :
               IF v.kind = "missing"
               THEN /\ Raise(Exception("FileNotFoundError", idx, "Load"))
                    /\ UNCHANGED <<val_df, train_df, fs>>
               ELSE IF t.kind = "missing"
               THEN /\ Raise(Exception("FileNotFoundError", idx, "Load"))
                    /\ val_df' = v
                    /\ fs' = [fs EXCEPT ![train_file] = t]
                    /\ UNCHANGED train_df
               ELSE /\ val_df' = v
                    /\ train_df' = t
                    /\ fs' = [fs EXCEPT ![train_file] = t]
                    /\ Goto("tensors")
    /\ UNCHANGED <<files, state_dicts, model, idx, train_tensor, dec_input, enc_out, dec_out,
                   pred_log_rul, pred_rul, results, logs, unit>>

\* df.values is an object array when a column is not numeric: one holding a
\* non-numeric cell, and every column of a table without rows (read_csv
\* gives a column without values the dtype object).
ObjectDtype(df) == df.kind = "nonnumeric" \/ Len(df.rows) = 0

\* train_tensor = add_positional_encoding(torch.tensor(train_df.values[:, :D]).unsqueeze(0))
\* dec_input = add_positional_encoding(val_tensor[-window_size:].unsqueeze(0))
\* torch.tensor raises TypeError on an object array.
Tensors ==
    /\ pc = "tensors"
    /\ IF ObjectDtype(train_df)
       THEN /\ Raise(Exception("TypeError", idx, "Load"))
            /\ UNCHANGED <<train_tensor, dec_input>>
       ELSE /\ train_tensor' = add_positional_encoding(<<FirstColumns(train_df.rows)>>)
            /\ IF ObjectDtype(val_df)
               THEN /\ Raise(Exception("TypeError", idx, "Load"))
                    /\ UNCHANGED dec_input
               ELSE /\ dec_input' =
                          add_positional_encoding(
                              <<LastRows(FirstColumns(val_df.rows), window_size)>>)
                    /\ Goto("encoder")
    /\ UNCHANGED <<files, state_dicts, model, fs, idx, val_df, train_df, enc_out, dec_out,
                   pred_log_rul, pred_rul, results, trace, logs, unit>>

\* enc_out = encoder(train_tensor)
RunEncoder ==
    /\ pc = "encoder"
    /\ trace' = Append(trace, <<idx, "Encode">>)
    /\ enc_out' = Encoder_forward(model.encoder.params, train_tensor)
    /\ Goto("decoder")
    /\ UNCHANGED <<files, state_dicts, model, fs, idx, val_df, train_df, train_tensor, dec_input,
                   dec_out, pred_log_rul, pred_rul, results, logs, unit>>

\* dec_out = decoder(dec_input, enc_out)
RunDecoder ==
    /\ pc = "decoder"
    /\ trace' = Append(trace, <<idx, "Decode">>)
    /\ dec_out' = Decoder_forward(model.decoder.params, dec_input, enc_out)
    /\ Goto("rul_head")
    /\ UNCHANGED <<files, state_dicts, model, fs, idx, val_df, train_df, train_tensor, dec_input,
                   enc_out, pred_log_rul, pred_rul, results, logs, unit>>

\* pred_log_rul = rul_head(dec_out)
RunHead ==
    /\ pc = "rul_head"
    /\ trace' = Append(trace, <<idx, "Regress">>)
    /\ IF RULHead_raises(dec_out)
       THEN /\ Raise(Exception("IndexError", idx, "Regress"))
            /\ UNCHANGED pred_log_rul
       ELSE /\ pred_log_rul' = RULHead_forward(model.regressor.params, dec_out)
            /\ Goto("pow")
    /\ UNCHANGED <<files, state_dicts, model, fs, idx, val_df, train_df, train_tensor, dec_input,
                   enc_out, dec_out, pred_rul, results, logs, unit>>

\* pred_rul = math.pow(100, pred_log_rul.item()) - 1
Pow ==
    /\ pc = "pow"
    /\ trace' = Append(trace, <<idx, "Transform">>)
    /\ IF math_pow_overflows(pred_log_rul[1])
       THEN /\ Raise(Exception("OverflowError", idx, "Transform"))
            /\ UNCHANGED pred_rul
       ELSE /\ pred_rul' = InverseTransform(pred_log_rul[1])
            /\ Goto("append")
    /\ UNCHANGED <<files, state_dicts, model, fs, idx, val_df, train_df, train_tensor, dec_input,
                   enc_out, dec_out, pred_log_rul, results, logs, unit>>

\* results.append({...}); print(...).  The loop's locals are dead from here
\* to their next assignment and are cleared.
Collect ==
    /\ pc = "append"
    /\ trace' = Append(trace, <<idx, "Collect">>)
    /\ results' = results_append(results,
                      [Validation |-> Sessions[idx].val_name,
                       Best_Train |-> Sessions[idx].train_file,
                       Pred_RUL |-> pred_rul])
    /\ logs' = Append(logs, pred_log_rul[1])
    /\ val_df' = Unread /\ train_df' = Unread
    /\ train_tensor' = <<>> /\ dec_input' = <<>> /\ enc_out' = <<>> /\ dec_out' = <<>>
    /\ pred_log_rul' = <<>> /\ pred_rul' = NoneDec
    /\ Goto("for")
    /\ UNCHANGED <<files, state_dicts, model, fs, idx, unit>>

\* results_df = pd.DataFrame(results); results_df.to_csv(output_csv_path); return results_df
ToCsv ==
    /\ pc = "to_csv"
    /\ csv' = results
    /\ n_writes' = n_writes + 1
    /\ pc' = "done"
    /\ UNCHANGED <<files, state_dicts, model, fs, idx, locals, results, error, trace, logs, unit>>

Next ==
    \/ LoadEncoder \/ LoadDecoder \/ LoadRegressor
    \/ ForNext \/ ReadCsv \/ Tensors
    \/ RunEncoder \/ RunDecoder \/ RunHead \/ Pow \/ Collect \/ ToCsv

Spec == Init /\ [][Next]_vars
\* ------------------------------------------------------ pipeline: claims

Stages == <<"Load", "Encode", "Decode", "Regress", "Transform", "Collect">>

\* The stages session j has entered, in the order it entered them.
RECURSIVE StagesOfFrom(_, _, _)
StagesOfFrom(tr, j, i) ==
    IF i > Len(tr) THEN <<>>
    ELSE (IF tr[i][1] = j THEN <<tr[i][2]>> ELSE <<>>) \o StagesOfFrom(tr, j, i + 1)

StagesOf(j) == StagesOfFrom(trace, j, 1)

Collected(j) == \E i \in 1..Len(trace) : trace[i] = <<j, "Collect">>

Failed(j) == pc = "raised" /\ error.session = j

RunEnded == pc \in {"done", "raised"}

InSession == pc \in {"read_csv", "tensors", "encoder", "decoder", "rul_head", "pow", "append"}

\* The exceptions the program raises for what the error taxonomy calls a
\* DataError (a table without rows or with a non-numeric cell: TypeError;
\* an empty window at the head: IndexError) or
\* a ComputationError (a non-finite RUL: OverflowError).
PerSessionErrors == {"IndexError", "TypeError", "OverflowError"}

WeightLoadFails == \E k \in ModelKeys : files[k] # "ok"

\* C1: a session that fails with a DataError or ComputationError is recorded
\* as failed and every session after it in the match table still reaches a
\* terminal state (collected or failed).
C1_FailureIsolated ==
    (pc = "raised" /\ error.type \in PerSessionErrors) =>
        \A j \in (error.session + 1)..Len(Sessions) : Collected(j) \/ Failed(j)

\* C2: once the window has been cut for a session, the validation table had
\* at least window_size rows (a shorter one fails at the windowing step, so
\* no decoder input is built from it), and the decoder input is exactly the
\* table's last window_size rows, in order, positionally encoded.
C2_WindowOrDataError ==
    pc \in {"encoder", "decoder", "rul_head", "pow", "append"} =>
        /\ Len(val_df.rows) >= window_size
        /\ dec_input =
               add_positional_encoding(
                   <<[t \in 1..window_size |->
                        FirstColumns(val_df.rows)[Len(val_df.rows) - window_size + t]]>>)

\* C3: the three weight sets are loaded before the first session is touched,
\* and in every run where a weight load fails no session is loaded, no
\* forward pass runs, the result collection stays empty and no artifact is
\* written.
C3_WeightsFirstOrAbort ==
    /\ (idx >= 1 \/ trace # <<>>) => \A k \in ModelKeys : model[k] = Loaded(state_dicts[k])
    /\ WeightLoadFails =>
           /\ idx = 0 /\ trace = <<>>
           /\ val_df = Unread /\ train_df = Unread
           /\ enc_out = <<>> /\ dec_out = <<>> /\ pred_log_rul = <<>>
           /\ results = <<>> /\ csv = <<>> /\ n_writes = 0
           /\ pc \in {"load_encoder", "load_decoder", "load_regressor", "raised"}

C3_Witness ==
    /\ pc = "raised" /\ error.stage = "decoder"
    /\ model["encoder"].loaded /\ ~model["decoder"].loaded
    /\ results = <<>> /\ n_writes = 0

\* C4: every session passes through Load, Encode, Decode, Regress,
\* Transform, Collect in that order, one session after the other, and when
\* the run ends (normally, or by a per-session error) every session of the
\* match table is Collected or Failed.
C4_LinearStagesAllTerminal ==
    /\ \A j \in 1..Len(Sessions) :
           /\ StagesOf(j) = SubSeq(Stages, 1, Len(StagesOf(j)))
           /\ (j > 1 /\ StagesOf(j) # <<>>) => Collected(j - 1)
    /\ (pc = "done" \/ (pc = "raised" /\ error.type \in PerSessionErrors)) =>
           \A j \in 1..Len(Sessions) : Collected(j) \/ Failed(j)

\* The sessions whose iteration of the loop has finished.
Completed == IF InSession \/ (pc = "raised" /\ error.session >= 1) THEN idx - 1 ELSE idx

C5_State ==
    /\ Len(results) = Completed
    /\ \A i \in 1..Len(results) :
           /\ results[i].Validation = best_matches[i].val_name
           /\ results[i].Best_Train = best_matches[i].train_file
    /\ n_writes > 0 => csv = results

C5_Step ==
    \/ results' = results
    \/ /\ pc = "append"
       /\ Len(results') = Len(results) + 1
       /\ SubSeq(results', 1, Len(results)) = results
       /\ results'[Len(results')].Pred_RUL = pred_rul

\* C5: the result collection always holds exactly one entry per session
\* processed so far, in match-table order and with the match table's
\* reference id; a step only ever appends the current session's entry; and
\* the written artifact has the same rows in the same order.
C5_ResultsPrefixOrdered == [](C5_State) /\ [][C5_Step]_vars

C5_Witness == pc = "done" /\ Len(results) = Len(Sessions) /\ Len(results) >= 2 /\ csv = results

\* C10: the artifact is written at most once and only after every session
\* has been collected; a run that stops at a session never writes it.
C10_WriteOnceAtEnd ==
    /\ n_writes <= 1
    /\ n_writes = 1 =>
           /\ pc = "done"
           /\ Len(results) = Len(Sessions)
           /\ \A j \in 1..Len(Sessions) : Collected(j)
    /\ pc = "raised" => (n_writes = 0 /\ csv = <<>>)

C10_Witness ==
    /\ pc = "raised" /\ error.session = Len(Sessions)
    /\ Len(results) = Len(Sessions) - 1 /\ Len(results) >= 1
    /\ n_writes = 0 /\ csv = <<>>

\* ------------------------------------------- the transform on any scalar

\* The log-RUL scalars the head is made to return: a range around 0 and the
\* scalars around the largest one whose power of 100 is finite.
LogRulMax == 12

LogRuls ==
    ((-LogRulMax)..LogRulMax) \cup ((DBL_MAX_10_EXP \div 2 - 1)..(DBL_MAX_10_EXP \div 2 + 1))

AllLoaded ==
    /\ files = [k \in ModelKeys |-> "ok"]
    /\ state_dicts =
           [encoder |-> EncoderParams(ZeroSelfAttention, ZeroFeedForward),
            decoder |-> DecoderParams(ZeroSelfAttention, ZeroCrossAttention, ZeroFeedForward),
            regressor |-> HeadParams(ZeroLinear(hidden_dims[1], feature_dim),
                                     ZeroLinear(hidden_dims[2], hidden_dims[1]),
                                     ZeroLinear(1, hidden_dims[2]))]
    /\ model = [k \in ModelKeys |-> Loaded(state_dicts[k])]

InitTransform ==
    /\ pc = "for"
    /\ AllLoaded
    /\ fs = [f \in TrainFileNames |-> Unread]
    /\ idx = 0
    /\ val_df = Unread /\ train_df = Unread
    /\ train_tensor = <<>> /\ dec_input = <<>> /\ enc_out = <<>> /\ dec_out = <<>>
    /\ pred_log_rul = <<>> /\ pred_rul = NoneDec
    /\ results = <<>> /\ csv = <<>> /\ n_writes = 0
    /\ error = NoError
    /\ trace = <<>> /\ logs = <<>>
    /\ unit = Idle

\* Lines 137-153 for any tables and any weights: rul_head returns a tensor
\* of one scalar.
AnyLogRul ==
    /\ pc = "read_csv"
    /\ \E s \in LogRuls : pred_log_rul' = <<s>>
    /\ Goto("pow")
    /\ UNCHANGED <<files, state_dicts, model, fs, idx, val_df, train_df, train_tensor, dec_input,
                   enc_out, dec_out, pred_rul, results, trace, logs, unit>>

NextTransform == ForNext \/ AnyLogRul \/ Pow \/ Collect \/ ToCsv

SpecTransform == InitTransform /\ [][NextTransform]_vars

Minus1 == Dec(TRUE, <<1>>, <<>>)

\* What math.pow(100, s) - 1 is as a binary64 value, for an integer s whose
\* power of 100 is finite.
ExpectedRul(s) ==
    IF s = 0 THEN DecZero
    ELSE IF s = 2 THEN Dec(FALSE, <<9, 9, 9, 9>>, <<>>)
    ELSE IF 1 <= s /\ s <= 7 THEN Dec(FALSE, [i \in 1..(2 * s) |-> 9], <<>>)
    ELSE IF s >= 8 THEN Dec(FALSE, <<1>> \o [i \in 1..(2 * s) |-> 0], <<>>)
    ELSE IF s >= -8 THEN Dec(TRUE, <<0>>, [i \in 1..(-(2 * s)) |-> 9])
    ELSE Minus1

NotRunning ==
    /\ pc = "unit"
    /\ AllLoaded
    /\ fs = [f \in TrainFileNames |-> Unread]
    /\ idx = 0
    /\ val_df = Unread /\ train_df = Unread
    /\ train_tensor = <<>> /\ dec_input = <<>> /\ enc_out = <<>> /\ dec_out = <<>>
    /\ pred_log_rul = <<>> /\ pred_rul = NoneDec
    /\ results = <<>> /\ csv = <<>> /\ n_writes = 0
    /\ error = NoError
    /\ trace = <<>> /\ logs = <<>>

\* The feature rows the blocks are called with, and the (L, D) sequences of them.
UnitRows == {ConstVec(feature_dim, 0), [i \in 1..feature_dim |-> i - 2]}

UnitSeqs(L) == [1..L -> UnitRows]

ZerosLike(X) == [t \in 1..Len(X) |-> ConstVec(feature_dim, 0)]

\* Batches of one and of two elements holding X.
UnitBatches(X) == {<<X>>, <<X, X>>, <<ZerosLike(X), X>>}

InitSelfAttention ==
    /\ NotRunning
    /\ \E p \in SelfAttentionSet, L \in 1..MaxLen :
           \E X \in UnitSeqs(L) :
               \E x \in UnitBatches(X) :
                   unit = [block |-> "SelfAttention", p |-> p, x |-> x, y |-> <<>>, done |-> FALSE]

\* y = SelfAttention(...)(x)
CallSelfAttention ==
    /\ unit.block = "SelfAttention"
    /\ ~unit.done
    /\ unit' = [unit EXCEPT !.y = SelfAttention_forward(unit.p, unit.x), !.done = TRUE]
    /\ UNCHANGED pipeline_vars

NextSelfAttention == CallSelfAttention

SpecSelfAttention == InitSelfAttention /\ [][NextSelfAttention]_vars

ZeroWeights(lin) == \A o \in 1..Len(lin.weight) : \A i \in 1..Len(lin.weight[o]) : lin.weight[o][i] = 0

\* C7 as stated: whenever all attention projection weights are zero, the
\* output of SelfAttention equals its input at every position.
C7_ZeroWeightsIdentity ==
    (unit.block = "SelfAttention" /\ unit.done /\ ZeroWeights(unit.p.qkv) /\ ZeroWeights(unit.p.out))
        => unit.y = unit.x

\* C7 amended: whenever all attention projection weights are zero, the output
\* of SelfAttention is its input plus the output projection's bias at every
\* position, so it equals the input when that bias is zero as well (whatever
\* the bias of qkv).
C7_ZeroWeightsInputPlusBias ==
    (unit.block = "SelfAttention" /\ unit.done /\ ZeroWeights(unit.p.qkv) /\ ZeroWeights(unit.p.out))
        => /\ Len(unit.y) = Len(unit.x)
           /\ \A b \in 1..Len(unit.x) :
                  /\ Len(unit.y[b]) = Len(unit.x[b])
                  /\ \A t \in 1..Len(unit.x[b]) :
                         \A i \in 1..feature_dim :
                             unit.y[b][t][i] = unit.x[b][t][i] + unit.p.out.bias[i]
           /\ (\A i \in 1..feature_dim : unit.p.out.bias[i] = 0) => unit.y = unit.x

C7_Witness ==
    /\ unit.block = "SelfAttention" /\ unit.done
    /\ ZeroWeights(unit.p.qkv) /\ ZeroWeights(unit.p.out)
    /\ unit.p.out.bias = ConstVec(feature_dim, 0)
    /\ unit.p.qkv.bias # ConstVec(3 * feature_dim, 0)
    /\ Len(unit.x) = 2 /\ Len(unit.x[2]) >= 2
    /\ unit.x[2][1] # ConstVec(feature_dim, 0)
    /\ unit.y = unit.x

\* The head parameters it is called with: the two hidden layers from
\* LinearSet, the last layer summing its inputs.
HeadSet ==
    {HeadParams(l1, l2, LinearParams(ConstMat(1, hidden_dims[2], 1), ConstVec(1, 0))) :
        l1 \in LinearSet(hidden_dims[1], feature_dim),
        l2 \in LinearSet(hidden_dims[2], hidden_dims[1])}

\* Two decoder outputs of one shape (B, L, D), L >= 1.
InitRULHead ==
    /\ NotRunning
    /\ \E p \in HeadSet, L \in 1..MaxLen :
           \E X1, X2 \in UnitSeqs(L) :
               \E x \in {<<<<X1>>, <<X2>>>>, <<<<X1, X2>>, <<X2, X2>>>>} :
                   unit = [block |-> "RULHead", p |-> p, x1 |-> x[1], x2 |-> x[2],
                           y1 |-> <<>>, y2 |-> <<>>, done |-> FALSE]

\* y1 = RULHead(...)(x1); y2 = RULHead(...)(x2)
CallRULHead ==
    /\ unit.block = "RULHead"
    /\ ~unit.done
    /\ unit' = [unit EXCEPT !.y1 = RULHead_forward(unit.p, unit.x1),
                            !.y2 = RULHead_forward(unit.p, unit.x2),
                            !.done = TRUE]
    /\ UNCHANGED pipeline_vars

NextRULHead == CallRULHead

SpecRULHead == InitRULHead /\ [][NextRULHead]_vars

\* C8: RULHead returns one scalar per batch element, and two decoder outputs
\* of one shape that agree at the last time step of a batch element give it
\* the same scalar, whatever their earlier time steps.
C8_LastStepOnly ==
    (unit.block = "RULHead" /\ unit.done)
        => /\ Len(unit.y1) = Len(unit.x1) /\ Len(unit.y2) = Len(unit.x2)
           /\ \A b \in 1..Len(unit.x1) :
                  /\ unit.y1[b] \in Int /\ unit.y2[b] \in Int
                  /\ unit.x1[b][Len(unit.x1[b])] = unit.x2[b][Len(unit.x2[b])]
                         => unit.y1[b] = unit.y2[b]

C8_Witness ==
    /\ unit.block = "RULHead" /\ unit.done
    /\ Len(unit.x1) = 2 /\ Len(unit.x1[1]) >= 2
    /\ unit.x1[1][Len(unit.x1[1])] = unit.x2[1][Len(unit.x2[1])]
    /\ unit.x1[1][1] # unit.x2[1][1]
    /\ unit.y1[1] = unit.y2[1]
    /\ unit.y1[1] # 0

\* A variant of the loop body with the two attentions exchanged.
DecoderBlocksSwapped == <<"ca", "sa", "ff">>

\* The body of Decoder.forward's loop, in statement order.
DecoderBlocks == <<"sa", "ca", "ff">>

\* The decoders it is called with: every layer alike, the cross-attention
\* from CrossAttentionSet with unbiased q and kv.
DecoderSet ==
    {DecoderParams(a, c, f) :
        a \in {ZeroSelfAttention, EyeSelfAttention},
        c \in {c \in CrossAttentionSet : c.q.bias[1] = 0 /\ c.kv.bias[1] = 0},
        f \in {ZeroFeedForward, EyeFeedForward}}

\* A window of T rows and a memory of S rows, batch of one.
UnitWindow(T) == <<[t \in 1..T |-> [i \in 1..feature_dim |-> IF i = 1 THEN t ELSE 0]]>>

UnitMemory(S) == <<[s \in 1..S |-> [i \in 1..feature_dim |-> IF i = 2 THEN s + 1 ELSE 1]]>>

InitDecoder ==
    /\ NotRunning
    /\ \E ps \in DecoderSet, T \in 1..MaxLen, S \in 1..MaxLen :
           unit = [block |-> "Decoder", ps |-> ps, tgt |-> UnitWindow(T), memory |-> UnitMemory(S),
                   x |-> UnitWindow(T), enc_out |-> UnitMemory(S),
                   layer |-> 1, stmt |-> 1, applied |-> <<>>, before |-> <<>>]

\* One statement of the loop body has run: x holds y.
DecoderStep(name, y) ==
    /\ unit.block = "Decoder"
    /\ unit.layer <= layers
    /\ DecoderBlocks[unit.stmt] = name
    /\ unit' = [unit EXCEPT !.x = y,
                            !.before = unit.x,
                            !.applied = Append(@, [layer |-> unit.layer, name |-> name]),
                            !.stmt = IF @ = Len(DecoderBlocks) THEN 1 ELSE @ + 1,
                            !.layer = IF unit.stmt = Len(DecoderBlocks) THEN @ + 1 ELSE @]
    /\ UNCHANGED pipeline_vars

\* x = sa(x)
DecoderSelfAttention ==
    /\ unit.block = "Decoder" /\ unit.layer <= layers
    /\ DecoderStep("sa", SelfAttention_forward(unit.ps.self_layers[unit.layer], unit.x))

\* x = ca(x, enc_out)
DecoderCrossAttention ==
    /\ unit.block = "Decoder" /\ unit.layer <= layers
    /\ DecoderStep("ca", MultiHeadCrossAttention_forward(unit.ps.cross_layers[unit.layer],
                                                        unit.x, unit.enc_out))

\* x = ff(x)
DecoderFeedForward ==
    /\ unit.block = "Decoder" /\ unit.layer <= layers
    /\ DecoderStep("ff", FeedForward_forward(unit.ps.ffns[unit.layer], unit.x))

NextDecoder == DecoderSelfAttention \/ DecoderCrossAttention \/ DecoderFeedForward

SpecDecoder == InitDecoder /\ [][NextDecoder]_vars

SameShape(x, y) ==
    /\ Len(x) = Len(y)
    /\ \A b \in 1..Len(x) :
           /\ Len(x[b]) = Len(y[b])
           /\ \A t \in 1..Len(x[b]) : Len(x[b][t]) = Len(y[b][t])

\* C9: Decoder.forward runs, for each layer in index order, self-attention,
\* then cross-attention, then feed-forward, each on the output of the step
\* before; the memory every cross-attention reads is the encoder's, never
\* modified; the stream keeps the window's shape (T rows) whatever the
\* memory's length S; the residual cross-attention adds is the stream (with
\* a zero output projection the step returns the stream it was given); the
\* value returned after the last layer is the nested composition.
C9_DecoderOrderAndMemory ==
    unit.block = "Decoder" =>
        /\ \A k \in 1..Len(unit.applied) :
               /\ unit.applied[k].layer = ((k - 1) \div 3) + 1
               /\ unit.applied[k].name = <<"sa", "ca", "ff">>[((k - 1) % 3) + 1]
        /\ Len(unit.applied) <= 3 * layers
        /\ unit.enc_out = unit.memory
        /\ SameShape(unit.x, unit.tgt)
        /\ (/\ Len(unit.applied) > 0
            /\ unit.applied[Len(unit.applied)].name = "ca"
            /\ unit.ps.cross_layers[1].out = ZeroLinear(feature_dim, feature_dim))
               => unit.x = unit.before
        /\ unit.layer > layers =>
               /\ Len(unit.applied) = 3 * layers
               /\ unit.x = Decoder_forward(unit.ps, unit.tgt, unit.memory)

C9_Witness ==
    /\ unit.block = "Decoder"
    /\ unit.layer > layers
    /\ Len(unit.memory[1]) # Len(unit.tgt[1])
    /\ unit.x # unit.tgt
    /\ unit.ps.cross_layers[1].out # ZeroLinear(feature_dim, feature_dim)
    /\ unit.x = Decoder_forward(unit.ps, unit.tgt, unit.memory)
====
